---- MODULE Spec2Model ----
(***************************************************************************)
(* A model of apps/webapp/app/features/ee/projects/services/               *)
(* createProjectDeployment.server.ts: the CreateProjectDeployment service  *)
(* (version fetch, build request, insert, publish, P2002 retry), the       *)
(* helpers getCommitAuthor and formatFileContents, and the invite loader.  *)
(*                                                                         *)
(*   Spec        concurrent CreateProjectDeployment.call invocations, one  *)
(*               step per await, against the table, cakework and the queue *)
(*   SpecLive    Spec with every await of a running attempt resolving      *)
(*   SpecEnvs    the calls of Spec over two environments and a table that  *)
(*               holds an earlier deployment                               *)
(*   SpecCommit  getCommitAuthor over the shapes of a GitHubCommit         *)
(*   SpecInvite  the invite loader, one step per await, while the session  *)
(*               and the invite store change under it                      *)
(*   SpecRender  the dockerfile and dockerIgnore texts over command strings*)
(*                                                                         *)
(* Text is modelled by TLA+ strings; a character is a string of length 1.  *)
(* Every collaborator answers, and each of the four awaits of call may     *)
(* resolve or reject.                                                      *)
(***************************************************************************)
EXTENDS Integers, Sequences, FiniteSets, Bags, TLC

VARIABLES
    db,         \* the ProjectDeployment table: a set of rows
    events,     \* the events taskQueue.publish accepted: a bag
    builds,     \* the requests cakework.buildImageFromGithub received: a set, one per build id
    calls,      \* per top-level call: its locals and the await it is suspended at
    faults,     \* how many rejections the collaborators have injected
    commit,     \* getCommitAuthor: the GitHubCommit given
    committer,  \* getCommitAuthor: what it returned
    request,    \* loader: the request (token, session user), the invite store, the members
    response,   \* loader: the redirect it returned, or the rejection
    pending,    \* loader: the await it is suspended at and what it has read so far
    repositoryProject, \* file rendering: the project's buildCommand and startCommand
    files       \* file rendering: the dockerfile and dockerIgnore texts

createVars == <<db, events, builds, calls, faults>>
commitVars == <<commit, committer>>
inviteVars == <<request, response, pending>>
renderVars == <<repositoryProject, files>>
vars == <<db, events, builds, calls, faults, commit, committer,
          request, response, pending, repositoryProject, files>>

(***************************************************************************)
(* Bounds of the model.                                                    *)
(***************************************************************************)
\* rejections other than a genuine (project, version) collision that the table
\* and the queue inject over a run
MaxFaults == 4
\* the longest buildCommand and startCommand rendered
MaxBuildLen == 2
MaxStartLen == 3

\* the top-level calls in flight together: two calls are what the race on the
\* next version takes
Slots == {"c1", "c2"}
Projects == {"p1", "p2"}
Environments == {"live"}

(***************************************************************************)
(* Values a collaborator may reject with.  `type` is what typeof gives,    *)
(* `hasCode` is ("code" in error), `code` is error.code, `name` tells      *)
(* errors of one shape apart, `printable` is whether `${error}` yields a   *)
(* string (it throws a TypeError for a Symbol and for an object without    *)
(* toString).  Prisma and cakework reject with instances of Error; what    *)
(* taskQueue.publish rejects with is not restricted.                       *)
(***************************************************************************)
NoError ==
    [type |-> "none", hasCode |-> FALSE, code |-> "", name |-> "", printable |-> TRUE]
UniqueConstraintError ==
    [type |-> "object", hasCode |-> TRUE, code |-> "P2002", name |-> "Error", printable |-> TRUE]
ConnectionError ==
    [type |-> "object", hasCode |-> TRUE, code |-> "P1001", name |-> "Error", printable |-> TRUE]
PlainError ==
    [type |-> "object", hasCode |-> FALSE, code |-> "", name |-> "Error", printable |-> TRUE]
StringError ==
    [type |-> "string", hasCode |-> FALSE, code |-> "P2002", name |-> "", printable |-> TRUE]
\* an object created without prototype, with code "P2002"
BareCollision ==
    [type |-> "object", hasCode |-> TRUE, code |-> "P2002", name |-> "", printable |-> FALSE]
\* what the conversion of an unprintable value throws
TypeError ==
    [type |-> "object", hasCode |-> FALSE, code |-> "", name |-> "TypeError", printable |-> TRUE]

\* the threshold of the give-up test, retryCount > 3
RetryLimit == 3

\* typeof error === "object" && error !== null && "code" in error && error.code === "P2002"
IsCollision(error) ==
    /\ error.type = "object"
    /\ error.hasCode
    /\ error.code = "P2002"

\* variant: gives up one attempt earlier (retryCount >= 3)
GiveUpEarly(retryCount) == retryCount >= RetryLimit
\* variant: never gives up
GiveUpNever(retryCount) == FALSE
\* if (retryCount > 3) return;
GiveUp(retryCount) == retryCount > RetryLimit

(***************************************************************************)
(* The persistence layer.                                                  *)
(***************************************************************************)
Max(S) == CHOOSE x \in S : \A y \in S : y <= x

\* variant: a fetch that never sees the rows persisted, and answers 1
FirstVersionAlways(rows, projectId) == 1
\* the latest version of the project's deployments plus one, 1 when it has none
getNextDeploymentVersion(rows, projectId) ==
    LET versions == {r.version : r \in {x \in rows : x.projectId = projectId}}
    IN  IF versions = {} THEN 1 ELSE Max(versions) + 1

\* variant: a table without the constraint
NoConstraint(rows, projectId, version) == FALSE
\* the unique constraint on (projectId, version)
UniqueViolation(rows, projectId, version) ==
    \E r \in rows : r.projectId = projectId /\ r.version = version

\* generated identifiers (the row's cuid, cakework's build id) are opaque and
\* unique: the kind, the top-level call and the attempt that asked for it
NewDeploymentId(call) == <<"deployment", call.slot, call.retryCount>>
NewBuildId(call) == <<"build", call.slot, call.retryCount>>

\* variant: every row carries the build id of the call's first attempt
DeploymentRowFirstBuild(call) ==
    [ id            |-> <<"deployment", call.slot, call.retryCount>>,
      version       |-> call.version,
      buildId       |-> <<"build", call.slot, 0>>,
      projectId     |-> call.project,
      environmentId |-> call.environment,
      status        |-> "PENDING" ]
\* data: { version, buildId, project: connect, environment: connect, status: "PENDING", ... }
\* (the row's texts, branch, commit fields and buildStartedAt are left out:
\* nothing branches on them)
DeploymentRow(call) ==
    [ id            |-> NewDeploymentId(call),
      version       |-> call.version,
      buildId       |-> call.buildId,
      projectId     |-> call.project,
      environmentId |-> call.environment,
      status        |-> "PENDING" ]

(***************************************************************************)
(* One slot's call state.  pc is the await the call is suspended at, or    *)
(* how it ended.  The n* fields count what this top-level call has done,   *)
(* collided holds the versions its inserts collided on.                    *)
(***************************************************************************)
Terminal == {"returned", "absent", "raised"}

NoId == <<>>

NewCall(slot, project, environment) ==
    [ slot |-> slot, pc |-> "version", project |-> project, environment |-> environment,
      retryCount |-> 0, version |-> 0, buildId |-> NoId, deployment |-> NoId,
      result |-> NoId, error |-> NoError, failed |-> NoError, failedAt |-> "",
      nFetch |-> 0, nBuild |-> 0, nCreate |-> 0, nCollide |-> 0,
      nCreated |-> 0, nPublish |-> 0, collided |-> {} ]

IdleCall(slot) == [NewCall(slot, "p1", "live") EXCEPT !.pc = "idle"]

NotRun == [kind |-> "not run"]

CreateInit ==
    /\ db = {}
    /\ events = EmptyBag
    /\ builds = {}
    /\ calls = [s \in Slots |-> IdleCall(s)]
    /\ faults = 0

CommitIdle == commit = NotRun /\ committer = NotRun
InviteIdle == request = NotRun /\ response = NotRun /\ pending = NotRun
RenderIdle == repositoryProject = NotRun /\ files = NotRun

Init == CreateInit /\ CommitIdle /\ InviteIdle /\ RenderIdle

\* new CreateProjectDeployment().call({ project, environment, ... }) with retryCount = 0
Call(s, project, environment) ==
    /\ calls[s].pc = "idle"
    /\ calls' = [calls EXCEPT ![s] = NewCall(s, project, environment)]
    /\ UNCHANGED <<db, events, builds, faults, commitVars, inviteVars, renderVars>>

\* an await outside the try block rejects: the call rejects with that value
Reject(call, error, at) ==
    [call EXCEPT !.pc = "raised", !.error = error, !.failed = error, !.failedAt = at]

\* what getNextDeploymentVersion may reject with
FetchErrors == {UniqueConstraintError, ConnectionError}
\* what cakework.buildImageFromGithub may reject with
BuildErrors == {UniqueConstraintError, PlainError}

\* variant: the insert follows the version fetch, no build is requested
FetchVersionSkippingBuild(s) ==
    /\ calls[s].pc = "version"
    /\ calls' = [calls EXCEPT ![s].version = getNextDeploymentVersion(db, calls[s].project),
                              ![s].nFetch = @ + 1,
                              ![s].pc = "create"]
    /\ UNCHANGED <<db, events, builds, faults, commitVars, inviteVars, renderVars>>
\* const version = await getNextDeploymentVersion(project.id); resolves, and
\* the call runs on to cakework.buildImageFromGithub({ ... }), which sends the request
FetchVersion(s) ==
    /\ calls[s].pc = "version"
    /\ builds' = builds \cup {[buildId |-> NewBuildId(calls[s]), repository |-> calls[s].project]}
    /\ calls' = [calls EXCEPT ![s].version = getNextDeploymentVersion(db, calls[s].project),
                              ![s].nFetch = @ + 1,
                              ![s].nBuild = @ + 1,
                              ![s].pc = "build"]
    /\ UNCHANGED <<db, events, faults, commitVars, inviteVars, renderVars>>

\* await getNextDeploymentVersion(project.id) rejects
FetchFails(s) ==
    /\ calls[s].pc = "version"
    /\ faults < MaxFaults
    /\ faults' = faults + 1
    /\ \E error \in FetchErrors :
          calls' = [calls EXCEPT ![s] =
                       Reject([calls[s] EXCEPT !.nFetch = @ + 1], error, "version")]
    /\ UNCHANGED <<db, events, builds, commitVars, inviteVars, renderVars>>

\* const build = await cakework.buildImageFromGithub({ ... }); resolves
BuildImage(s) ==
    /\ calls[s].pc = "build"
    /\ calls' = [calls EXCEPT ![s].buildId = NewBuildId(calls[s]),
                              ![s].pc = "create"]
    /\ UNCHANGED <<db, events, builds, faults, commitVars, inviteVars, renderVars>>

\* await cakework.buildImageFromGithub({ ... }) rejects
BuildFails(s) ==
    /\ calls[s].pc = "build"
    /\ faults < MaxFaults
    /\ faults' = faults + 1
    /\ \E error \in BuildErrors :
          calls' = [calls EXCEPT ![s] = Reject(calls[s], error, "build")]
    /\ UNCHANGED <<db, events, builds, commitVars, inviteVars, renderVars>>

\* variant: a retry of the insert alone, with the version and build at hand
RetryInsertOnly(call) ==
    [call EXCEPT !.pc = "create", !.retryCount = @ + 1, !.deployment = NoId]
\* variant: a retry that keeps the version in hand and starts at the build request
RetryWithoutFetch(call) ==
    [call EXCEPT !.pc = "build", !.retryCount = @ + 1, !.deployment = NoId]
\* return await this.call({ ... }, retryCount + 1);
Retry(call) ==
    [call EXCEPT !.pc = "version", !.retryCount = @ + 1, !.deployment = NoId]

\* variant: a catch block that retries whatever the error is
CatchRetryAll(call, error) ==
    IF ~error.printable
    THEN [call EXCEPT !.pc = "raised", !.error = TypeError, !.failed = error]
    ELSE IF GiveUp(call.retryCount)
    THEN [call EXCEPT !.pc = "absent", !.failed = error]
    ELSE Retry([call EXCEPT !.failed = error])
\* the catch block: console.error(`... ${error}`), which throws when the value
\* has no string form; then give up, retry or rethrow
Catch(call, error) ==
    IF ~error.printable
    THEN [call EXCEPT !.pc = "raised", !.error = TypeError, !.failed = error]
    ELSE IF IsCollision(error)
    THEN IF GiveUp(call.retryCount)
         THEN [call EXCEPT !.pc = "absent", !.failed = error]
         ELSE Retry([call EXCEPT !.failed = error])
    ELSE [call EXCEPT !.pc = "raised", !.error = error, !.failed = error]

\* what projectDeployment.create may reject with
InsertErrors(rows, projectId, version) ==
    {ConnectionError, PlainError}
        \cup (IF UniqueViolation(rows, projectId, version)
              THEN {UniqueConstraintError} ELSE {})

\* const deployment = await this.#prismaClient.projectDeployment.create({ ... });
CreateOk(s) ==
    /\ calls[s].pc = "create"
    /\ ~UniqueViolation(db, calls[s].project, calls[s].version)
    /\ db' = db \cup {DeploymentRow(calls[s])}
    /\ calls' = [calls EXCEPT ![s].deployment = NewDeploymentId(calls[s]),
                              ![s].nCreate = @ + 1,
                              ![s].nCreated = @ + 1,
                              ![s].pc = "publish"]
    /\ UNCHANGED <<events, builds, faults, commitVars, inviteVars, renderVars>>

CreateFails(s) ==
    /\ calls[s].pc = "create"
    /\ \E error \in InsertErrors(db, calls[s].project, calls[s].version) :
          /\ calls' = [calls EXCEPT ![s] =
                       Catch([calls[s] EXCEPT !.failedAt = "create",
                                              !.nCreate = @ + 1,
                                              !.nCollide = @ + (IF error = UniqueConstraintError THEN 1 ELSE 0),
                                              !.collided = @ \cup (IF error = UniqueConstraintError
                                                                   THEN {calls[s].version} ELSE {})],
                             error)]
          /\ IF error = UniqueConstraintError
             THEN faults' = faults
             ELSE faults < MaxFaults /\ faults' = faults + 1
    /\ UNCHANGED <<db, events, builds, commitVars, inviteVars, renderVars>>

\* what taskQueue.publish may reject with
PublishErrors == {UniqueConstraintError, ConnectionError, StringError, BareCollision}

\* variant: an event that carries the build id
DeploymentCreatedForBuild(call) ==
    [name |-> "PROJECT_DEPLOYMENT_CREATED", id |-> call.buildId]
\* ("PROJECT_DEPLOYMENT_CREATED", { id: deployment.id })
DeploymentCreated(call) ==
    [name |-> "PROJECT_DEPLOYMENT_CREATED", id |-> call.deployment]

\* await taskQueue.publish("PROJECT_DEPLOYMENT_CREATED", { id: deployment.id }); return deployment;
PublishOk(s) ==
    /\ calls[s].pc = "publish"
    /\ events' = events (+) SetToBag({DeploymentCreated(calls[s])})
    /\ calls' = [calls EXCEPT ![s].nPublish = @ + 1,
                              ![s].result = calls[s].deployment,
                              ![s].pc = "returned"]
    /\ UNCHANGED <<db, builds, faults, commitVars, inviteVars, renderVars>>

PublishFails(s) ==
    /\ calls[s].pc = "publish"
    /\ faults < MaxFaults
    /\ faults' = faults + 1
    /\ \E error \in PublishErrors :
          calls' = [calls EXCEPT ![s] =
                       Catch([calls[s] EXCEPT !.failedAt = "publish"], error)]
    /\ UNCHANGED <<db, events, builds, commitVars, inviteVars, renderVars>>

Next ==
    \/ \E s \in Slots, p \in Projects, e \in Environments : Call(s, p, e)
    \/ \E s \in Slots : FetchVersion(s)
    \/ \E s \in Slots : FetchFails(s)
    \/ \E s \in Slots : BuildImage(s)
    \/ \E s \in Slots : BuildFails(s)
    \/ \E s \in Slots : CreateOk(s)
    \/ \E s \in Slots : CreateFails(s)
    \/ \E s \in Slots : PublishOk(s)
    \/ \E s \in Slots : PublishFails(s)

Spec == Init /\ [][Next]_vars

(***************************************************************************)
(* Properties of CreateProjectDeployment.call                              *)
(***************************************************************************)
\* a call that is running or has ended
Active(call) == call.pc # "idle"
\* the build requests cakework holds from this top-level call
BuildsOf(call) ==
    {b \in builds : b.buildId[2] = call.slot}

\* C1: in every reachable state, no two persisted deployments of one project
\* have the same version, whatever the interleaving of the calls and retries.
C1_UniqueVersionPerProject ==
    \A r1, r2 \in db :
        (r1.projectId = r2.projectId /\ r1.version = r2.version) => r1 = r2

\* two calls for one project raced: one of them collided, retried and both returned
C1_Witness ==
    \E s, t \in Slots :
        /\ s # t
        /\ calls[s].project = calls[t].project
        /\ calls[s].pc = "returned" /\ calls[t].pc = "returned"
        /\ calls[s].nCollide >= 1
        /\ Cardinality({r \in db : r.projectId = calls[s].project}) >= 2

\* C2 (as stated): while every insert of a call raises the collision error, the
\* call runs the insert at most 4 times.
C2_AtMostFourInserts ==
    \A s \in Slots :
        calls[s].nCollide = calls[s].nCreate => calls[s].nCreate <= 4

\* C2 (amended): while every insert of a call raises the collision error, the
\* call runs the insert at most 5 times; it ends either at its fifth insert,
\* returning absent and raising no error, or earlier because a version fetch
\* or a build request rejected, raising that error.
C2_FiveInsertsThenAbsent ==
    \A s \in Slots :
        (Active(calls[s]) /\ calls[s].nCollide = calls[s].nCreate) =>
            /\ calls[s].nCreate <= 5
            /\ calls[s].pc \in Terminal =>
                  IF calls[s].failedAt = "create"
                  THEN /\ calls[s].pc = "absent"
                       /\ calls[s].nCreate = 5
                       /\ calls[s].error = NoError
                       /\ calls[s].result = NoId
                  ELSE /\ calls[s].pc = "raised"
                       /\ calls[s].failedAt \in {"version", "build"}
                       /\ calls[s].error = calls[s].failed
                       /\ calls[s].nCreate < 5

\* a call gave up after five inserts that all collided
C2_Witness ==
    \E s \in Slots :
        /\ calls[s].pc = "absent"
        /\ calls[s].nCreate = 5
        /\ calls[s].nCollide = 5

\* C3: when the insert fails with an error other than the collision error, the
\* call ends raising that same error; no retry is started, nothing is fetched
\* or built after the failing insert, which is the last insert of the call (the
\* only one when no earlier attempt was retried), and the call publishes no event.
C3_OtherInsertErrorPropagates ==
    \A s \in Slots :
        (/\ calls[s].failedAt = "create"
         /\ calls[s].failed \notin {NoError, UniqueConstraintError}) =>
            /\ calls[s].pc = "raised"
            /\ calls[s].error = calls[s].failed
            /\ calls[s].retryCount = calls[s].nCreate - 1
            /\ calls[s].nFetch = calls[s].nCreate
            /\ calls[s].nBuild = calls[s].nCreate
            /\ calls[s].nPublish = 0
            /\ calls[s].nCreate = calls[s].nCollide + calls[s].nCreated + 1

\* the first insert of a call failed with a connection error and the call raised it
C3_Witness ==
    \E s \in Slots :
        /\ calls[s].pc = "raised"
        /\ calls[s].failedAt = "create"
        /\ calls[s].error = ConnectionError
        /\ calls[s].nCreate = 1
        /\ calls[s].nFetch = 1

\* the event with the id of the deployment the call returned
EventOfResult(call) == [name |-> "PROJECT_DEPLOYMENT_CREATED", id |-> call.result]

\* C4 (as stated): a call in which some insert succeeded ends having published
\* exactly one event, for the deployment it returns.
C4_InsertedImpliesOneEvent ==
    \A s \in Slots :
        (calls[s].pc \in Terminal /\ calls[s].nCreated >= 1) =>
            /\ calls[s].nPublish = 1
            /\ calls[s].pc = "returned"
            /\ CopiesIn(EventOfResult(calls[s]), events) = 1

\* the event that carries the id of a row
EventOfRow(r) == [name |-> "PROJECT_DEPLOYMENT_CREATED", id |-> r.id]
\* the rows this top-level call persisted
RowsOf(call) == {r \in db : r.id[2] = call.slot}

\* C4 (amended): the publish that follows a successful insert decides.  When
\* it returns, its event is the only one the call publishes, it carries the id
\* of the row just inserted, and that deployment is what the call returns.
\* When it rejects, the row stays persisted with no event and is never
\* returned: the call raises the rejection (a TypeError when the rejection has
\* no string form), except that on a rejection with code P2002 it starts the
\* next attempt while retryCount <= 3 and returns absent after that.  So a
\* call returns a deployment exactly when a publish returned, and each row has
\* an event exactly when it is the deployment returned.
C4_PublishDecidesOutcome ==
    /\ [](\A s \in Slots :
             /\ calls[s].nPublish <= 1
             /\ (calls[s].nPublish = 1) <=> (calls[s].pc = "returned")
             /\ calls[s].pc = "returned" =>
                   /\ calls[s].result = NewDeploymentId(calls[s])
                   /\ calls[s].result = calls[s].deployment
                   /\ \E r \in db : r.id = calls[s].result
                   /\ CopiesIn(EventOfResult(calls[s]), events) = 1
             /\ calls[s].pc # "returned" => calls[s].result = NoId
             /\ Cardinality(RowsOf(calls[s])) = calls[s].nCreated
             /\ \A r \in RowsOf(calls[s]) :
                   CopiesIn(EventOfRow(r), events) = (IF r.id = calls[s].result THEN 1 ELSE 0))
    /\ [][\A s \in Slots :
             (calls[s].pc = "publish" /\ calls'[s] # calls[s]) =>
                 /\ db' = db
                 /\ \/ /\ calls'[s].pc = "returned"
                       /\ calls'[s].result = calls[s].deployment
                       /\ events' = events (+) SetToBag({[name |-> "PROJECT_DEPLOYMENT_CREATED",
                                                          id |-> calls[s].deployment]})
                    \/ /\ events' = events
                       /\ calls'[s].failedAt = "publish"
                       /\ calls'[s].failed # NoError
                       /\ calls'[s].result = NoId
                       /\ IF ~calls'[s].failed.printable
                          THEN calls'[s].pc = "raised" /\ calls'[s].error = TypeError
                          ELSE IF calls'[s].failed.type = "object" /\ calls'[s].failed.code = "P2002"
                          THEN IF calls[s].retryCount <= 3
                               THEN /\ calls'[s].pc = "version"
                                    /\ calls'[s].retryCount = calls[s].retryCount + 1
                               ELSE calls'[s].pc = "absent" /\ calls'[s].error = NoError
                          ELSE calls'[s].pc = "raised" /\ calls'[s].error = calls'[s].failed]_vars

\* one call inserted, published and returned its deployment; the other
\* inserted, its publish rejected, and it raised with its row left without event
C4_Witness ==
    \E s, t \in Slots :
        /\ calls[s].pc = "returned"
        /\ calls[s].nCreated = 1
        /\ calls[s].nPublish = 1
        /\ BagIn(EventOfResult(calls[s]), events)
        /\ calls[t].pc = "raised"
        /\ calls[t].failedAt = "publish"
        /\ calls[t].error = ConnectionError
        /\ calls[t].nCreated = 1
        /\ \E r \in db : r.id = calls[t].deployment /\ ~BagIn(EventOfRow(r), events)

\* the call's current attempt has its version: the fetch resolved
Fetched(call) ==
    \/ call.pc \in {"build", "create", "publish", "returned", "absent"}
    \/ call.pc = "raised" /\ call.failedAt # "version"
\* the call's current attempt has its build id: the build request resolved
Built(call) ==
    \/ call.pc \in {"create", "publish", "returned", "absent"}
    \/ call.pc = "raised" /\ call.failedAt \in {"create", "publish"}

\* C5 (as stated): over a whole call the number of build requests equals the
\* number of attempts made.
C5_BuildsEqualAttempts ==
    \A s \in Slots :
        calls[s].pc \in Terminal =>
            /\ calls[s].nFetch = calls[s].retryCount + 1
            /\ calls[s].nBuild = calls[s].nFetch

\* C5 (amended): every attempt whose version fetch returns issues exactly one
\* build request, and an attempt whose fetch rejects issues none: the call has
\* sent as many requests as it has attempts with a version, each a request of
\* its own that cakework still holds, also after a collision, and an attempt
\* whose request returned uses the build id of its own request.
C5_OneBuildPerAttempt ==
    \A s \in Slots :
        Active(calls[s]) =>
            /\ calls[s].nBuild =
                  (IF Fetched(calls[s]) THEN calls[s].retryCount + 1
                                        ELSE calls[s].retryCount)
            /\ Cardinality(BuildsOf(calls[s])) = calls[s].nBuild
            /\ BuildsOf(calls[s]) =
                  {[buildId |-> <<"build", s, k>>, repository |-> calls[s].project] :
                      k \in 0..(calls[s].nBuild - 1)}
            /\ Built(calls[s]) => calls[s].buildId = NewBuildId(calls[s])

\* an attempt started after a collision has issued the call's second build request
C5_Witness ==
    \E s \in Slots :
        /\ calls[s].retryCount = 1
        /\ calls[s].nCollide = 1
        /\ calls[s].pc = "create"
        /\ calls[s].nBuild = 2

\* this step is an insert of call s that the store rejects with the collision error
InsertCollides(s) ==
    /\ calls[s].pc = "create"
    /\ calls'[s].nCollide = calls[s].nCollide + 1

\* C12: when an insert raises the collision error, the call gives up exactly
\* when the attempt counter of the failing attempt exceeds 3, and then it
\* returns absent with no error, having persisted no row and published no
\* event in that call; with a counter of 3 or less it retries, the counter
\* increased by exactly 1.
C12_GiveUpOrRetryOnCollision ==
    [][\A s \in Slots :
          InsertCollides(s) =>
              IF calls[s].retryCount > 3
              THEN /\ calls'[s].pc = "absent"
                   /\ calls'[s].error = NoError
                   /\ calls'[s].result = NoId
                   /\ calls'[s].nCreated = 0
                   /\ calls'[s].nPublish = 0
              ELSE /\ calls'[s].pc = "version"
                   /\ calls'[s].retryCount = calls[s].retryCount + 1]_vars

\* the attempt an id was made in: the call and its attempt counter
AttemptOf(id) == <<id[2], id[3]>>
ThisAttempt(call) == <<call.slot, call.retryCount>>

\* C14: within each attempt the effects come in the order fetch, build
\* request, insert, publish: a build is requested only when the attempt's
\* fetch has returned, a row is inserted only with the build id that the attempt's own
\* build request returned before, and an event is published only for the id
\* of a row that the same attempt persisted before.
C14_FetchBuildInsertPublish ==
    [][\A s \in Slots :
          /\ calls'[s].nBuild # calls[s].nBuild =>
                /\ calls[s].pc = "version"
                /\ calls'[s].nFetch = calls[s].nFetch + 1
                /\ calls'[s].version = getNextDeploymentVersion(db, calls[s].project)
          /\ calls'[s].nCreated # calls[s].nCreated =>
                /\ calls[s].nBuild = calls[s].retryCount + 1
                /\ Built(calls[s])
                /\ \E b \in builds : /\ b.buildId = calls[s].buildId
                                     /\ AttemptOf(b.buildId) = ThisAttempt(calls[s])
                /\ \A r \in db' \ db : r.buildId = calls[s].buildId
          /\ calls'[s].nPublish # calls[s].nPublish =>
                /\ \A e \in BagToSet(events') :
                       CopiesIn(e, events') # CopiesIn(e, events) =>
                          \E r \in db : /\ r.id = e.id
                                        /\ AttemptOf(r.id) = ThisAttempt(calls[s])
                /\ events' # events]_vars

\* a call's second attempt fetched, built, inserted and published, in that order
C14_Witness ==
    \E s \in Slots :
        /\ calls[s].pc = "returned"
        /\ calls[s].retryCount = 1
        /\ calls[s].nFetch = 2 /\ calls[s].nBuild = 2
        /\ \E r \in db : r.id = calls[s].result /\ r.buildId = <<"build", s, 1>>
        /\ BagIn([name |-> "PROJECT_DEPLOYMENT_CREATED", id |-> <<"deployment", s, 1>>], events)

\* the current attempt of the call is past its version fetch
PastFetch(call) == call.pc \in {"build", "create", "publish"} \cup Terminal

\* C15: every retry runs the whole operation again: each attempt fetches the
\* next version anew (as many fetches as attempts), the version an attempt
\* inserts with is never one that an earlier insert of the call collided on,
\* and no row of the call carries such a version.
C15_RetryFetchesAgain ==
    \A s \in Slots :
        (Active(calls[s]) /\ PastFetch(calls[s])) =>
            /\ calls[s].nFetch = calls[s].retryCount + 1
            /\ calls[s].pc \in {"build", "create", "publish", "returned"} =>
                  calls[s].version \notin calls[s].collided
            /\ \A r \in db :
                  (r.id[2] = s /\ r.projectId = calls[s].project) =>
                      r.version \notin calls[s].collided

\* a call whose insert collided on version 1 is about to insert with version 2
C15_Witness ==
    \E s \in Slots :
        /\ calls[s].pc = "create"
        /\ calls[s].retryCount = 1
        /\ calls[s].collided = {1}
        /\ calls[s].version = 2
        /\ calls[s].nFetch = 2

\* C17: a call persists at most one deployment row, whatever the
\* collaborators do: once an insert of the call has succeeded, no later
\* attempt of the call inserts again, also when the publish that follows fails.
C17_AtMostOneRowPerCall ==
    \A s \in Slots :
        /\ calls[s].nCreated <= 1
        /\ Cardinality({r \in db : r.id[2] = s}) <= 1

(***************************************************************************)
(* Termination: the calls of Spec, with every await returning or raising   *)
(* in the end.                                                             *)
(***************************************************************************)
\* each awaited call of a running attempt returns or raises
FairAwaits ==
    \A s \in Slots :
        /\ WF_vars(FetchVersion(s) \/ FetchFails(s))
        /\ WF_vars(BuildImage(s) \/ BuildFails(s))
        /\ WF_vars(CreateOk(s) \/ CreateFails(s))
        /\ WF_vars(PublishOk(s) \/ PublishFails(s))

SpecLive == Init /\ [][Next]_vars /\ FairAwaits

\* how a call that ended ended: with a deployment, with nothing, or with an error
Outcome(call) ==
    CASE call.pc = "returned" -> call.result # NoId /\ call.error = NoError
      [] call.pc = "absent"   -> call.result = NoId /\ call.error = NoError
      [] call.pc = "raised"   -> call.result = NoId /\ call.error # NoError
      [] OTHER                -> call.result = NoId /\ call.error = NoError

\* C16: every call ends, whatever collisions, other errors and successes the
\* collaborators produce: it makes at most 5 attempts (attempt counter 0 to 4)
\* and ends in exactly one of three outcomes: a deployment returned, absent
\* returned, or an error raised.
C16_EveryCallTerminates ==
    /\ [](\A s \in Slots : /\ calls[s].retryCount <= RetryLimit + 1
                           /\ calls[s].nCreate <= RetryLimit + 2
                           /\ Outcome(calls[s]))
    /\ \A s \in Slots : Active(calls[s]) ~> (calls[s].pc \in Terminal)

\* a call ended after its fifth attempt while the other call raised an error
C16_Witness ==
    \E s, t \in Slots :
        /\ calls[s].pc \in Terminal
        /\ calls[s].retryCount = RetryLimit + 1
        /\ calls[t].pc = "raised"

(***************************************************************************)
(* The race on the next version: two calls of SpecLive, for one project,   *)
(* that hold the same version before either has inserted.                  *)
(***************************************************************************)
\* the versions two calls can contend for
ContendedVersions == 1..2
\* calls s and t, for one project, have both read v as the next version and
\* neither has inserted yet
ReadSame(s, t, v) ==
    /\ calls[s].project = calls[t].project
    /\ calls[s].pc \in {"build", "create"} /\ calls[t].pc \in {"build", "create"}
    /\ calls[s].version = v /\ calls[t].version = v
\* winner w persisted v at its first insert; loser l collided once, fetched
\* again and persisted another version; both returned their deployment
Settled(w, l, v) ==
    /\ calls[w].pc = "returned" /\ calls[l].pc = "returned"
    /\ calls[w].nCollide = 0 /\ calls[w].nCreate = 1
    /\ calls[l].nCollide = 1 /\ calls[l].nCreate = 2 /\ calls[l].nFetch = 2
    /\ \E r \in db : r.id = calls[w].result /\ r.version = v
    /\ \E r \in db : r.id = calls[l].result /\ r.version # v
    /\ Cardinality({r \in db : r.projectId = calls[w].project /\ r.version = v}) = 1

\* how many publishes of a call that has ended rejected
PublishRejections(call) == call.nCreated - call.nPublish
\* how many awaits of a call that has ended rejected, the inserts rejected for
\* the collision left out
Rejections(call) ==
    (call.nCreate - call.nCreated - call.nCollide)
        + PublishRejections(call)
        + (IF call.pc = "raised" /\ call.failedAt \in {"version", "build"} THEN 1 ELSE 0)

\* the two calls in flight; ReadSame and RaceEnded do not depend on their order
OneCall == CHOOSE s \in Slots : TRUE
OtherCall == CHOOSE s \in Slots \ {OneCall} : TRUE
\* calls s and t hold the same version, whichever it is, before either inserts
ReadSameVersion(s, t) == ReadSame(s, t, calls[s].version)
\* winner w persisted the one version it fetched, the contended one, and l
\* collided on that version and no other
SettledOn(w, l) ==
    /\ Settled(w, l, calls[w].version)
    /\ calls[w].nFetch = 1
    /\ calls[l].collided = {calls[w].version}

\* how the race between s and t has ended
RaceEnded(s, t) ==
    /\ calls[s].pc \in Terminal /\ calls[t].pc \in Terminal
    /\ \A r1, r2 \in {r \in db : r.projectId = calls[s].project} :
           r1.version = r2.version => r1 = r2
    /\ (Rejections(calls[s]) = 0 /\ Rejections(calls[t]) = 0) =>
           (SettledOn(s, t) \/ SettledOn(t, s))
    /\ \A c \in {s, t} : \A o \in {s, t} \ {c} :
           /\ (Rejections(calls[c]) = 0 /\ PublishRejections(calls[o]) = 0) =>
                  /\ calls[c].pc = "returned"
                  /\ calls[c].nCollide <= 1
           /\ calls[c].pc = "returned" =>
                  \E r \in db : /\ r.id = calls[c].result
                                /\ r.projectId = calls[c].project
                                /\ r.version = calls[c].version
           /\ calls[c].pc = "raised" =>
                  /\ Rejections(calls[c]) >= 1
                  /\ calls[c].error \in {calls[c].failed, TypeError}
                  /\ calls[c].error # NoError
           /\ calls[c].pc = "absent" =>
                  /\ calls[c].retryCount = RetryLimit + 1
                  /\ PublishRejections(calls[c]) + PublishRejections(calls[o]) >= 1

\* C13 (as stated): two concurrent calls for one project that both read the
\* same next version, with no other writer, both eventually return a
\* deployment: exactly one persists the contended version, the other collides
\* once, fetches again and persists a different version; neither returns
\* absent, neither raises.
C13_RaceBothReturn ==
    \A s, t \in Slots : \A v \in ContendedVersions :
        (s # t) =>
            (ReadSame(s, t, v) ~> (Settled(s, t, v) \/ Settled(t, s, v)))

\* C13 (amended): two concurrent calls for one project that both read the
\* same next version, with no other writer, both eventually end, and at most
\* one row holds the contended version.  When no await of either rejects but
\* for the collision, both return a deployment: one persisted the contended
\* version, the other collided once, fetched again and persisted another.  A
\* call none of whose awaits rejects returns a deployment as long as no
\* publish of the other call rejected.  A call raises only when one of its
\* own awaits rejected otherwise than for the collision, and it returns
\* absent only after five attempts and only when a publish of one of the two
\* rejected after its insert (the retry of C17).
C13_RaceEnds ==
    ReadSameVersion(OneCall, OtherCall) ~> RaceEnded(OneCall, OtherCall)

\* both calls read version 1 of p1; c1 persisted it, c2 collided on it, fetched
\* again and persisted version 2; nothing else rejected
C13_Witness ==
    /\ Settled("c1", "c2", 1)
    /\ calls["c1"].project = "p1" /\ calls["c2"].project = "p1"
    /\ calls["c2"].collided = {1}
    /\ \E r \in db : r.id = calls["c2"].result /\ r.version = 2
    /\ faults = 0

(***************************************************************************)
(* The calls of Spec over two environments and a table that holds an       *)
(* earlier deployment: every await may resolve or reject, as in Spec.      *)
(***************************************************************************)
\* the table before the calls: it holds an earlier deployment of p1
PriorRow ==
    [ id |-> <<"deployment", "c0", 0>>, version |-> 1, buildId |-> <<"build", "c0", 0>>,
      projectId |-> "p1", environmentId |-> "live", status |-> "PENDING" ]
\* the environments the calls deploy to
BothEnvironments == {"live", "staging"}

InitEnvs ==
    /\ db = {PriorRow}
    /\ events = EmptyBag
    /\ builds = {}
    /\ calls = [s \in Slots |-> IdleCall(s)]
    /\ faults = 0
    /\ CommitIdle /\ InviteIdle /\ RenderIdle

NextEnvs ==
    \/ \E s \in Slots, p \in Projects, e \in BothEnvironments : Call(s, p, e)
    \/ \E s \in Slots : FetchVersion(s)
    \/ \E s \in Slots : FetchFails(s)
    \/ \E s \in Slots : BuildImage(s)
    \/ \E s \in Slots : BuildFails(s)
    \/ \E s \in Slots : CreateOk(s)
    \/ \E s \in Slots : CreateFails(s)
    \/ \E s \in Slots : PublishOk(s)
    \/ \E s \in Slots : PublishFails(s)

SpecEnvs == InitEnvs /\ [][NextEnvs]_vars

\* the rows the calls persisted
RowsOfCalls == {r \in db : r.id[2] \in Slots}

\* C18: every row a call persists has status PENDING, is linked to the
\* project and the environment the caller passed, and carries the version
\* and the build id obtained in the attempt that inserts it: the value of
\* that attempt's fetch and the id returned by that attempt's build request,
\* never the build id of an earlier, collided attempt.
C18_RowOfItsAttempt ==
    /\ [](\A r \in RowsOfCalls :
             /\ r.status = "PENDING"
             /\ r.projectId = calls[r.id[2]].project
             /\ r.environmentId = calls[r.id[2]].environment
             /\ AttemptOf(r.buildId) = AttemptOf(r.id)
             /\ \E b \in builds : b.buildId = r.buildId)
    /\ [][\A s \in Slots :
             calls'[s].nCreated # calls[s].nCreated =>
                 /\ calls[s].nFetch = calls[s].retryCount + 1
                 /\ calls[s].nBuild = calls[s].retryCount + 1
                 /\ \A r \in db' \ db :
                       /\ r.version = calls[s].version
                       /\ r.buildId = calls[s].buildId
                       /\ AttemptOf(r.id) = ThisAttempt(calls[s])]_vars

\* a call for p2 and staging that collided once persisted its row with the
\* build of its second attempt
C18_Witness ==
    \E s \in Slots :
        /\ calls[s].nCollide = 1
        /\ \E r \in db :
              /\ r.id = <<"deployment", s, 1>>
              /\ r.buildId = <<"build", s, 1>>
              /\ r.projectId = "p2" /\ r.environmentId = "staging"
              /\ r.version = 2
              /\ r.status = "PENDING"

(***************************************************************************)
(* Optional values: null/undefined is Absent, anything else is Some(v).    *)
(***************************************************************************)
Absent == [kind |-> "absent"]
Some(v) == [kind |-> "value", value |-> v]

\* truthiness of an optional object, and of an optional string ("" is falsy)
TruthyObject(o) == o.kind = "value"
TruthyString(o) == o.kind = "value" /\ o.value # ""

(***************************************************************************)
(* getCommitAuthor                                                         *)
(***************************************************************************)
\* variant: the author login tried before the committer login
getCommitAuthorLoginFirst(c) ==
    IF TruthyObject(c.commit.author) /\ TruthyString(c.commit.author.value.name)
    THEN c.commit.author.value.name.value
    ELSE IF TruthyObject(c.author) /\ TruthyString(c.author.value.login)
    THEN c.author.value.login.value
    ELSE IF TruthyObject(c.committer) /\ TruthyString(c.committer.value.login)
    THEN c.committer.value.login.value
    ELSE "Unknown"
\* function getCommitAuthor(commit: GitHubCommit)
getCommitAuthor(c) ==
    IF TruthyObject(c.commit.author) /\ TruthyString(c.commit.author.value.name)
    THEN c.commit.author.value.name.value
    ELSE IF TruthyObject(c.committer) /\ TruthyString(c.committer.value.login)
    THEN c.committer.value.login.value
    ELSE IF TruthyObject(c.author) /\ TruthyString(c.author.value.login)
    THEN c.author.value.login.value
    ELSE "Unknown"

\* the shapes of GitHubCommit the resolution distinguishes
OptionalStrings(names) == {Absent} \cup {Some(n) : n \in names \cup {""}}
CommitAuthors == {Absent} \cup {Some([name |-> n]) : n \in OptionalStrings({"Ann"})}
Committers == {Absent} \cup {Some([login |-> n]) : n \in OptionalStrings({"bob"})}
Authors == {Absent} \cup {Some([login |-> n]) : n \in OptionalStrings({"cat"})}
Commits ==
    {[commit |-> [author |-> a], committer |-> k, author |-> u] :
        a \in CommitAuthors, k \in Committers, u \in Authors}

CommitInit == commit \in Commits /\ committer = NotRun

\* committer: getCommitAuthor(commit)
ResolveCommitter ==
    /\ committer = NotRun
    /\ committer' = Some(getCommitAuthor(commit))
    /\ UNCHANGED <<commit, createVars, inviteVars, renderVars>>

InitCommit == CommitInit /\ CreateInit /\ InviteIdle /\ RenderIdle
SpecCommit == InitCommit /\ [][ResolveCommitter]_vars

\* the string a field of an optional object holds, "" when the object or the
\* field is absent (or the string is empty)
FieldOf(object, field) ==
    IF object.kind = "value" /\ object.value[field].kind = "value"
    THEN object.value[field].value
    ELSE ""

\* C6: getCommitAuthor is total and returns the first present (non-empty) value
\* in the order commit author name, committer login, author login, and
\* "Unknown" when none is present.
C6_CommitterIsFirstPresent ==
    LET candidates ==
            SelectSeq(<<FieldOf(commit.commit.author, "name"),
                        FieldOf(commit.committer, "login"),
                        FieldOf(commit.author, "login")>>,
                      LAMBDA name : name # "")
    IN  /\ (commit # NotRun /\ committer = NotRun) => ENABLED ResolveCommitter
        /\ committer # NotRun =>
              /\ committer.value \in {"Ann", "bob", "cat", "Unknown"}
              /\ committer.value =
                    (IF candidates = <<>> THEN "Unknown" ELSE candidates[1])

\* no commit author, an empty committer login: the author login is returned
C6_Witness ==
    /\ commit # NotRun
    /\ commit.commit.author = Absent
    /\ commit.committer = Some([login |-> Some("")])
    /\ commit.author = Some([login |-> Some("cat")])
    /\ committer = Some("cat")

(***************************************************************************)
(* The invite loader                                                       *)
(***************************************************************************)
InvalidUrlMessage ==
    "Invalid invite url. Please ask the person who invited you to send another invite."
NotFoundMessage ==
    "Invite not found. Please ask the person who invited you to send another invite."
LoginMessage == "Please login to accept the invite."
RetrievedMessage == "Invite retrieved"
DifferentEmailMessage(email) ==
    "This invite is for a different email address. This account is registered to "
        \o email \o "."

redirectWithErrorMessage(path, message) ==
    [redirect |-> path, flash |-> "error", message |-> message]
redirectWithSuccessMessage(path, message) ==
    [redirect |-> path, flash |-> "success", message |-> message]

\* the invite with this token, if any
getInviteFromToken(invites, token) ==
    IF \E i \in invites : i.token = token
    THEN Some(CHOOSE i \in invites : i.token = token)
    ELSE Absent

LowerChar(ch) == IF ch = "A" THEN "a" ELSE IF ch = "B" THEN "b" ELSE ch
RECURSIVE toLowerCase(_)
toLowerCase(s) ==
    IF s = "" THEN "" ELSE LowerChar(Head(s)) \o toLowerCase(Tail(s))

\* variant: a comparison that ignores letter case
EmailsDifferIgnoringCase(inviteEmail, userEmail) ==
    toLowerCase(inviteEmail) # toLowerCase(userEmail)
\* invite.email !== user.email
EmailsDiffer(inviteEmail, userEmail) == inviteEmail # userEmail

\* variant: the session user tested before the invite is looked up
loaderUserFirst(req) ==
    LET user == req.user
        token == req.token
    IN  IF ~TruthyString(token)
        THEN redirectWithErrorMessage("/", InvalidUrlMessage)
        ELSE IF ~TruthyObject(user)
        THEN redirectWithSuccessMessage("/", LoginMessage)
        ELSE LET invite == getInviteFromToken(req.invites, token.value)
             IN  IF ~TruthyObject(invite)
                 THEN redirectWithErrorMessage("/", NotFoundMessage)
                 ELSE IF EmailsDiffer(invite.value.email, user.value.email)
                 THEN redirectWithErrorMessage("/", DifferentEmailMessage(user.value.email))
                 ELSE redirectWithSuccessMessage("/", RetrievedMessage)
\* export async function loader({ request, params })
loader(req) ==
    LET user == req.user
        token == req.token
    IN  IF ~TruthyString(token)
        THEN redirectWithErrorMessage("/", InvalidUrlMessage)
        ELSE LET invite == getInviteFromToken(req.invites, token.value)
             IN  IF ~TruthyObject(invite)
                 THEN redirectWithErrorMessage("/", NotFoundMessage)
                 ELSE IF ~TruthyObject(user)
                 THEN redirectWithSuccessMessage("/", LoginMessage)
                 ELSE IF EmailsDiffer(invite.value.email, user.value.email)
                 THEN redirectWithErrorMessage("/", DifferentEmailMessage(user.value.email))
                 ELSE redirectWithSuccessMessage("/", RetrievedMessage)

Tokens == {"t1", "t2"}
Emails == {"a@x.com", "A@x.com", "b@x.com"}
\* invite stores: at most one invite per token
InviteStores ==
    {st \in SUBSET [token : Tokens, email : Emails] :
        \A i, j \in st : i.token = j.token => i = j}
\* the organisation's members, by email: the state an acceptance would change
MemberSets == {{}, {"b@x.com"}}
\* the session user: nobody, or a user with an email
SessionUsers == {Absent} \cup {Some([email |-> e]) : e \in Emails}
Requests ==
    [ token   : OptionalStrings(Tokens),
      user    : SessionUsers,
      invites : InviteStores,
      members : MemberSets ]

\* the loader rejects with what its awaited collaborator rejected with
Rejected(error) == [redirect |-> "", flash |-> "rejected", message |-> error]
SessionError == "session store down"
LookupError == "invite lookup failed"

\* the loader has been called and is suspended at await getUser(request)
InviteInit ==
    /\ request \in Requests
    /\ response = NotRun
    /\ pending = [at |-> "getUser", user |-> Absent, invites |-> {}, rejected |-> ""]

\* const user = await getUser(request) resolves; the token is tested, and
\* with a token getInviteFromToken({ token }) is called
GetUser ==
    /\ pending.at = "getUser"
    /\ IF ~TruthyString(request.token)
       THEN /\ response' = loader(request)
            /\ pending' = [pending EXCEPT !.at = "done", !.user = request.user]
       ELSE /\ response' = response
            /\ pending' = [pending EXCEPT !.at = "getInviteFromToken", !.user = request.user]
    /\ UNCHANGED <<request, createVars, commitVars, renderVars>>

\* await getUser(request) rejects
GetUserFails ==
    /\ pending.at = "getUser"
    /\ response' = Rejected(SessionError)
    /\ pending' = [pending EXCEPT !.at = "done", !.rejected = "getUser"]
    /\ UNCHANGED <<request, createVars, commitVars, renderVars>>

\* variant: a loader that accepts the invite it retrieved
GetInviteAccepting ==
    /\ pending.at = "getInviteFromToken"
    /\ response' = loader([request EXCEPT !.user = pending.user])
    /\ pending' = [pending EXCEPT !.at = "done", !.invites = request.invites]
    /\ request' =
          IF loader([request EXCEPT !.user = pending.user]).message = RetrievedMessage
          THEN [request EXCEPT
                   !.invites = {i \in @ : i.token # request.token.value},
                   !.members = @ \cup {pending.user.value.email}]
          ELSE request
    /\ UNCHANGED <<createVars, commitVars, renderVars>>
\* const invite = await getInviteFromToken({ token }) resolves; the remaining
\* tests run on the invite just read and the user read before
GetInvite ==
    /\ pending.at = "getInviteFromToken"
    /\ response' = loader([request EXCEPT !.user = pending.user])
    /\ pending' = [pending EXCEPT !.at = "done", !.invites = request.invites]
    /\ UNCHANGED <<request, createVars, commitVars, renderVars>>

\* await getInviteFromToken({ token }) rejects
GetInviteFails ==
    /\ pending.at = "getInviteFromToken"
    /\ response' = Rejected(LookupError)
    /\ pending' = [pending EXCEPT !.at = "done", !.rejected = "getInviteFromToken"]
    /\ UNCHANGED <<request, createVars, commitVars, renderVars>>

\* while the loader is suspended, another request logs the user in or out
SessionChanges ==
    /\ pending.at \in {"getUser", "getInviteFromToken"}
    /\ \E u \in SessionUsers :
          /\ u # request.user
          /\ request' = [request EXCEPT !.user = u]
    /\ UNCHANGED <<response, pending, createVars, commitVars, renderVars>>

\* while the loader is suspended, another request creates or deletes an invite
StoreChanges ==
    /\ pending.at \in {"getUser", "getInviteFromToken"}
    /\ \E st \in InviteStores :
          /\ st # request.invites
          /\ request' = [request EXCEPT !.invites = st]
    /\ UNCHANGED <<response, pending, createVars, commitVars, renderVars>>

InitInvite == InviteInit /\ CreateInit /\ CommitIdle /\ RenderIdle
NextInvite ==
    \/ GetUser
    \/ GetUserFails
    \/ GetInvite
    \/ GetInviteFails
    \/ SessionChanges
    \/ StoreChanges
SpecInvite == InitInvite /\ [][NextInvite]_vars

\* the loader has answered
Answered == pending # NotRun /\ pending.at = "done"
\* what the loader read: the token, the user getUser returned and the store
\* as getInviteFromToken saw it
Seen ==
    [ token |-> request.token, user |-> pending.user,
      invites |-> pending.invites, members |-> request.members ]
\* the request carries no token (none, or an empty one)
TokenAbsent(req) == req.token = Absent \/ req.token = Some("")
\* the invites of the store the request's token names
InvitesFound(req) ==
    IF TokenAbsent(req) THEN {}
    ELSE {i \in req.invites : i.token = req.token.value}
LoggedIn(req) == req.user # Absent

\* text contains sub as a contiguous part
Contains(text, sub) ==
    \E i \in 1..(Len(text) - Len(sub) + 1) : SubSeq(text, i, i + Len(sub) - 1) = sub

\* the first failing check, in the order token, invite, user, email, decides
FirstFailingCheck(req) ==
    /\ response.redirect = "/"
    /\ TokenAbsent(req) =>
          response = [redirect |-> "/", flash |-> "error", message |-> InvalidUrlMessage]
    /\ (~TokenAbsent(req) /\ InvitesFound(req) = {}) =>
          response = [redirect |-> "/", flash |-> "error", message |-> NotFoundMessage]
    /\ (InvitesFound(req) # {} /\ ~LoggedIn(req)) =>
          response = [redirect |-> "/", flash |-> "success", message |-> LoginMessage]
    /\ (response = [redirect |-> "/", flash |-> "success", message |-> RetrievedMessage])
          <=> (/\ InvitesFound(req) # {}
               /\ LoggedIn(req)
               /\ \A i \in InvitesFound(req) : i.email = req.user.value.email)

\* C7 (as stated): the loader always redirects to "/", and the first failing
\* check in the order token, invite, user, email decides the outcome: no token
\* gives the "Invalid invite url" error whatever else holds, a token without
\* invite the "Invite not found" error with or without a user, an invite
\* without user the "Please login" success, and "Invite retrieved" is returned
\* exactly when the token is present, the invite exists, a user is logged in
\* and the emails are equal.
C7_AlwaysRedirects ==
    Answered => FirstFailingCheck(Seen)

\* C7 (amended): when getUser and getInviteFromToken resolve, the loader
\* redirects to "/" and the first failing check in the order token, invite,
\* user, email decides the outcome, on the user and the invite as they were
\* read; when getUser rejects the loader rejects with that error, with or
\* without a token, and when getInviteFromToken rejects the loader rejects
\* with that error.
C7_FirstFailingCheckDecides ==
    Answered =>
        CASE pending.rejected = "getUser" -> response = Rejected(SessionError)
          [] pending.rejected = "getInviteFromToken" ->
                response = Rejected(LookupError) /\ ~TokenAbsent(request)
          [] OTHER -> FirstFailingCheck(Seen)

\* a token that names no invite when the store is read, nobody logged in when
\* the session was read: "Invite not found"
C7_Witness ==
    /\ Answered
    /\ request.token = Some("t1")
    /\ pending.user = Absent
    /\ InvitesFound(Seen) = {}
    /\ pending.invites # {}
    /\ response = [redirect |-> "/", flash |-> "error", message |-> NotFoundMessage]

\* C8: with the invite found and a user logged in, the loader returns an error
\* redirect exactly when the user's email is not identical to the invite's
\* (a difference in letter case alone is a mismatch), and the error message
\* contains the user's email and not the invite's.
C8_CaseSensitiveEmailMismatch ==
    Answered =>
        \A i \in InvitesFound(Seen) :
            LoggedIn(Seen) =>
                /\ (response.flash = "error") <=> (i.email # pending.user.value.email)
                /\ response.flash = "error" =>
                      /\ Contains(response.message, pending.user.value.email)
                      /\ ~Contains(response.message, i.email)
                /\ response.flash \in {"error", "success"}

\* the invite is for a@x.com, the user is A@x.com: an error naming A@x.com
C8_Witness ==
    /\ Answered
    /\ pending.user = Some([email |-> "A@x.com"])
    /\ \E i \in InvitesFound(Seen) : i.email = "a@x.com"
    /\ response.flash = "error"
    /\ Contains(response.message, "A@x.com")

\* this step is a step of the loader
LoaderStep == pending' # pending \/ response' # response

\* C11: the loader changes nothing: on every path the invite store, the
\* members and the session user are after each of its steps what they were
\* before it; the only thing a run of the loader produces is its response.
C11_LoaderChangesNothing ==
    [][LoaderStep =>
          /\ request' = request
          /\ UNCHANGED <<createVars, commitVars, renderVars>>]_vars

\* the loader retrieved an invite for the logged-in user, who is not a member,
\* and the invite is still in the store
C11_Witness ==
    /\ Answered
    /\ response.message = RetrievedMessage
    /\ pending.user # Absent
    /\ pending.user.value.email \notin request.members
    /\ InvitesFound(Seen) # {}
    /\ InvitesFound(request) = InvitesFound(Seen)

(***************************************************************************)
(* Text: String.prototype.trimStart, split, join, and the rendered files   *)
(***************************************************************************)
\* ECMAScript WhiteSpace: TAB, VT, FF, SP, NBSP (U+00A0), U+1680 and ZWNBSP
\* (U+FEFF); the space separators U+2000 to U+200A, U+202F, U+205F and U+3000
\* have no TLA+ string form and are left out
WhiteSpace ==
    {"\t", "", "\f", " ", " ", " ", "﻿"}
\* ECMAScript LineTerminator: LF and CR; LS (U+2028) and PS (U+2029) have no
\* TLA+ string form and are left out
LineTerminators == {"\n", "\r"}
\* what trimStart strips
IsWhitespace(ch) == ch \in WhiteSpace \/ ch \in LineTerminators

RECURSIVE trimStart(_)
trimStart(s) ==
    IF s # "" /\ IsWhitespace(Head(s)) THEN trimStart(Tail(s)) ELSE s

RECURSIVE trimEnd(_)
trimEnd(s) ==
    IF s # "" /\ IsWhitespace(SubSeq(s, Len(s), Len(s)))
    THEN trimEnd(SubSeq(s, 1, Len(s) - 1)) ELSE s

\* the index of the first occurrence of the character, 0 when there is none
IndexOf(s, ch) ==
    LET hits == {i \in 1..Len(s) : SubSeq(s, i, i) = ch}
    IN  IF hits = {} THEN 0 ELSE CHOOSE i \in hits : \A j \in hits : i <= j

\* s.split(sep) for a one-character separator
RECURSIVE split(_, _)
split(s, sep) ==
    LET i == IndexOf(s, sep)
    IN  IF i = 0 THEN <<s>>
        ELSE <<SubSeq(s, 1, i - 1)>> \o split(SubSeq(s, i + 1, Len(s)), sep)

\* parts.join(sep)
RECURSIVE join(_, _)
join(parts, sep) ==
    IF Len(parts) = 0 THEN ""
    ELSE IF Len(parts) = 1 THEN parts[1]
    ELSE parts[1] \o sep \o join(Tail(parts), sep)

\* variant: each line trimmed at both ends
formatFileContentsTrim(contents) ==
    LET lines == split(trimStart(contents), "\n")
    IN  join([i \in 1..Len(lines) |-> trimEnd(trimStart(lines[i]))], "\n")
\* contents.trimStart().split("\n").map((line) => line.trimStart()).join("\n")
formatFileContents(contents) ==
    LET lines == split(trimStart(contents), "\n")
    IN  join([i \in 1..Len(lines) |-> trimStart(lines[i])], "\n")

\* project.startCommand.split(" ").map((s) => `"${s}"`).join(", ")
CmdTokens(startCommand) == split(startCommand, " ")
CmdList(startCommand) ==
    LET tokens == CmdTokens(startCommand)
    IN  join([i \in 1..Len(tokens) |-> "\"" \o tokens[i] \o "\""], ", ")

\* the template literal of the dockerfile, before formatting
DockerfileTemplate(p) ==
    "\n      FROM node:18-bullseye-slim\n      WORKDIR /app\n      COPY package*.json ./\n      RUN "
        \o p.buildCommand
        \o "\n      COPY . .\n      CMD ["
        \o CmdList(p.startCommand)
        \o "]\n    "

DockerIgnoreTemplate == "\n      node_modules\n    "

\* command strings: every string over the alphabet up to a length
Alphabet == {" ", "\t", "\n", "\f", "a"}
RECURSIVE Strings(_)
Strings(n) ==
    IF n = 0 THEN {""}
    ELSE LET shorter == Strings(n - 1)
         IN  shorter \cup {s \o ch : s \in shorter, ch \in Alphabet}

RenderInit ==
    /\ repositoryProject \in [buildCommand : Strings(MaxBuildLen), startCommand : Strings(MaxStartLen)]
    /\ files = NotRun

\* const dockerfile = formatFileContents(`...`); const dockerIgnore = formatFileContents(`...`);
Render ==
    /\ files = NotRun
    /\ files' = [dockerfile   |-> formatFileContents(DockerfileTemplate(repositoryProject)),
                 dockerIgnore |-> formatFileContents(DockerIgnoreTemplate)]
    /\ UNCHANGED <<repositoryProject, createVars, commitVars, inviteVars>>

InitRender == RenderInit /\ CreateInit /\ CommitIdle /\ InviteIdle
SpecRender == InitRender /\ [][Render]_vars

Lines(text) == split(text, "\n")
StartsWithWhitespace(text) == text # "" /\ IsWhitespace(Head(text))
AllWhitespace(text) == \A i \in 1..Len(text) : IsWhitespace(SubSeq(text, i, i))

\* the lines without the blank lines at the beginning
RECURSIVE DropLeadingBlankLines(_)
DropLeadingBlankLines(lines) ==
    IF lines # <<>> /\ AllWhitespace(lines[1])
    THEN DropLeadingBlankLines(Tail(lines)) ELSE lines

\* out is raw without its leading whitespace, with nothing else changed
IsIndentStripped(out, raw) ==
    /\ ~StartsWithWhitespace(out)
    /\ LET k == Len(raw) - Len(out)
       IN  /\ k >= 0
           /\ AllWhitespace(SubSeq(raw, 1, k))
           /\ out = SubSeq(raw, k + 1, Len(raw))

HasLine(text, line) == LET lines == Lines(text) IN \E i \in 1..Len(lines) : lines[i] = line
HasLineBreak(text) == Contains(text, "\n")

\* C9: for every build and start command the rendered dockerfile has no leading
\* blank line and no line that begins with whitespace, and is otherwise the
\* template with the commands in it: line for line the template's text after
\* its leading blank lines, less each line's leading indentation, so a command
\* without line break appears whole, interior and trailing whitespace kept.
C9_DockerfileNormalised ==
    files # NotRun =>
        LET out == Lines(files.dockerfile)
            raw == DropLeadingBlankLines(Lines(DockerfileTemplate(repositoryProject)))
        IN  /\ out[1] # ""
            /\ \A i \in 1..Len(out) : ~StartsWithWhitespace(out[i])
            /\ Len(out) = Len(raw)
            /\ \A i \in 1..Len(out) : IsIndentStripped(out[i], raw[i])
            /\ ~HasLineBreak(repositoryProject.buildCommand) =>
                  HasLine(files.dockerfile, "RUN " \o repositoryProject.buildCommand)
            /\ ~HasLineBreak(repositoryProject.startCommand) =>
                  HasLine(files.dockerfile,
                          "CMD [" \o CmdList(repositoryProject.startCommand) \o "]")

\* a build command with trailing whitespace is rendered whole
C9_Witness ==
    /\ files # NotRun
    /\ repositoryProject.buildCommand = "a "
    /\ repositoryProject.startCommand = "a a"
    /\ HasLine(files.dockerfile, "RUN a ")
    /\ HasLine(files.dockerfile, "CMD [\"a\", \"a\"]")

\* the maximal runs of non-whitespace characters of the text, in order
RECURSIVE WhitespaceTokens(_)
WhitespaceTokens(text) ==
    LET rest == trimStart(text)
        stops == {i \in 1..Len(rest) : IsWhitespace(SubSeq(rest, i, i))}
        n == IF stops = {} THEN Len(rest)
             ELSE (CHOOSE i \in stops : \A j \in stops : i <= j) - 1
    IN  IF rest = "" THEN <<>>
        ELSE <<SubSeq(rest, 1, n)>> \o WhitespaceTokens(SubSeq(rest, n + 1, Len(rest)))

QuotedList(tokens) ==
    join([i \in 1..Len(tokens) |-> "\"" \o tokens[i] \o "\""], ", ")

\* C10: the CMD line of the dockerfile lists exactly the non-empty
\* whitespace-delimited tokens of the start command, in order, each in double
\* quotes and joined by ", ", also for runs of spaces, tabs and spaces at the ends
\* (stated for the start commands that hold a token at all).
C10_CmdListsWhitespaceTokens ==
    (files # NotRun /\ WhitespaceTokens(repositoryProject.startCommand) # <<>>) =>
        /\ HasLine(files.dockerfile,
                   "CMD [" \o QuotedList(WhitespaceTokens(repositoryProject.startCommand)) \o "]")
        /\ ~Contains(files.dockerfile, "\"\"")

====
